---- MODULE Spec2Model ----
(***************************************************************************)
(* A model of the crop recommendation backend (src/app.py): the mandi      *)
(* price aggregation (build_price_dictionary, get_price_for_crop), the     *)
(* price fetch (fetch_karnataka_prices) and the /predict handler.          *)
(*                                                                         *)
(* Strings are sequences of one-character strings, so that lower(),        *)
(* strip() and the substring test `a in b` are computed, not assumed.      *)
(* Python floats are modelled as exact rationals [n, d] in lowest terms    *)
(* (d > 0); the IEEE special values nan and inf are outside the number     *)
(* domain of the model.  A JSON value is a tagged record: kind "none"      *)
(* (null, or an absent key read with dict.get), "str" or "num".            *)
(***************************************************************************)
EXTENDS Integers, Sequences, FiniteSets, TLC

VARIABLES
    \* build_price_dictionary and get_price_for_crop called on their own
    records,      \* the argument of build_price_dictionary
    built,        \* what build_price_dictionary returned
    crop_query,   \* the crop_name argument of get_price_for_crop
    quoted,       \* what get_price_for_crop returned
    price_pc      \* "idle", "start", "built", "resolved"

VARIABLES
    \* module globals, set at startup
    crop_master,        \* the crop catalog, a sequence of rows
    district_rainfall,  \* the rainfall table
    model,              \* the loaded predictor
    \* one /predict request each
    pc,                 \* where the request is in predict
    data,               \* request.json
    locals,             \* the fields read at lines 155-163
    payload,            \* what the price source answered to this request
    mandi_records,      \* what fetch_karnataka_prices returned
    price_dict,
    recommendations,
    crop_index,         \* the row the loop over crop_master is at, 0
                        \* before recommendations = [] (line 168)
    response,           \* the HTTP response
    fetches,            \* how many times the price source was called
    predict_calls       \* how many times model.predict was called

VARIABLES
    \* the ranking (lines 229-233) and the figures of one candidate (lines
    \* 206-227) computed on their own
    candidates,   \* the recommendations list before the sort
    ranked,       \* what the response carries
    figures_of,   \* crop, predicted_yield, price and land_area of a candidate
    figures,      \* what Evaluate made of them
    call_pc       \* "idle", "start", "returned"

price_vars == <<records, built, crop_query, quoted, price_pc>>
pure_vars == <<candidates, ranked, figures_of, figures, call_pc>>
global_vars == <<crop_master, district_rainfall, model>>
request_vars == <<pc, data, locals, payload, mandi_records, price_dict,
                  recommendations, crop_index, response, fetches,
                  predict_calls>>
vars == <<price_vars, pure_vars, global_vars, request_vars>>

----------------------------------------------------------------------------
(* Strings                                                                 *)

UpperChars == <<"A","B","C","D","E","F","G","H","I","J","K","L","M",
                "N","O","P","Q","R","S","T","U","V","W","X","Y","Z">>
LowerChars == <<"a","b","c","d","e","f","g","h","i","j","k","l","m",
                "n","o","p","q","r","s","t","u","v","w","x","y","z">>
Whitespace == {" ", "\t", "\n"}
DigitChars == <<"0","1","2","3","4","5","6","7","8","9">>

\* str.lower() on one character
LowerChar(c) ==
    IF \E i \in 1..Len(UpperChars) : UpperChars[i] = c
    THEN LowerChars[CHOOSE i \in 1..Len(UpperChars) : UpperChars[i] = c]
    ELSE c

\* str.lower()
Lower(s) == [i \in 1..Len(s) |-> LowerChar(s[i])]

RECURSIVE LStrip(_)
LStrip(s) ==
    IF s # <<>> /\ Head(s) \in Whitespace THEN LStrip(Tail(s)) ELSE s

RECURSIVE RStrip(_)
RStrip(s) ==
    IF s # <<>> /\ s[Len(s)] \in Whitespace
    THEN RStrip(SubSeq(s, 1, Len(s) - 1))
    ELSE s

\* str.strip()
Strip(s) == RStrip(LStrip(s))

\* the Python test `sub in s` on strings
Contains(sub, s) ==
    \E i \in 0..(Len(s) - Len(sub)) : SubSeq(s, i + 1, i + Len(sub)) = sub

----------------------------------------------------------------------------
(* Numbers                                                                 *)

RECURSIVE GCD(_, _)
GCD(a, b) == IF b = 0 THEN a ELSE GCD(b, a % b)

Abs(x) == IF x < 0 THEN -x ELSE x

\* the rational n/d in lowest terms with a positive denominator
Rat(n, d) ==
    LET g == GCD(Abs(n), Abs(d))
        s == IF d < 0 THEN -1 ELSE 1
    IN  [n |-> (s * n) \div g, d |-> (s * d) \div g]

RInt(i) == [n |-> i, d |-> 1]
RAdd(x, y) == Rat(x.n * y.d + y.n * x.d, x.d * y.d)
RSub(x, y) == Rat(x.n * y.d - y.n * x.d, x.d * y.d)
RMul(x, y) == Rat(x.n * y.n, x.d * y.d)
\* x / y, for y # 0
RDiv(x, y) == Rat(x.n * y.d, x.d * y.n)
RLt(x, y) == x.n * y.d < y.n * x.d
RGt(x, y) == RLt(y, x)
RLe(x, y) == ~RLt(y, x)
RGe(x, y) == ~RLt(x, y)

\* round(x, 2): the nearest multiple of 1/100, a tie going to the even one
Round2(x) ==
    LET q == (x.n * 100) \div x.d
        r == (x.n * 100) % x.d
        up == \/ 2 * r > x.d
              \/ (2 * r = x.d /\ q % 2 = 1)
    IN  Rat(IF up THEN q + 1 ELSE q, 100)

----------------------------------------------------------------------------
(* JSON values and Python exceptions                                       *)

None == [kind |-> "none"]
Str(s) == [kind |-> "str", s |-> s]
Num(x) == [kind |-> "num", x |-> x]

\* Python truthiness of a JSON scalar: None, "" and 0 are false
Truthy(v) ==
    CASE v.kind = "none" -> FALSE
      [] v.kind = "str" -> v.s # <<>>
      [] v.kind = "num" -> v.x # RInt(0)

\* what a call returns: a value, or the fact that it raised
Return(v) == [raised |-> FALSE, val |-> v]
Raise(e) == [raised |-> TRUE, exc |-> e]

DigitValue(c) == (CHOOSE i \in 1..10 : DigitChars[i] = c) - 1
IsDigit(c) == \E i \in 1..10 : DigitChars[i] = c

RECURSIVE DigitsValue(_)
DigitsValue(s) ==
    IF s = <<>> THEN 0
    ELSE 10 * DigitsValue(SubSeq(s, 1, Len(s) - 1)) + DigitValue(s[Len(s)])

\* float(v) on the numerals the model draws: digits with surrounding whitespace
\* parse to their value, any other string raises ValueError, None raises TypeError
ParseFloat(v) ==
    CASE v.kind = "num" -> Return(v.x)
      [] v.kind = "none" -> Raise("TypeError")
      [] v.kind = "str" ->
            LET t == Strip(v.s)
            IN  IF t # <<>> /\ \A i \in 1..Len(t) : IsDigit(t[i])
                THEN Return(RInt(DigitsValue(t)))
                ELSE Raise("ValueError")

----------------------------------------------------------------------------
(* Mandi price functions                                                   *)

MIN_PRICE == 100
MAX_PRICE == 30000

\* a Python dict: a sequence of entries [k, v] in insertion order
DictHas(d, k) == \E i \in 1..Len(d) : d[i].k = k
DictIndex(d, k) == CHOOSE i \in 1..Len(d) : d[i].k = k
DictGet(d, k) == d[DictIndex(d, k)].v
DictKeys(d) == {d[i].k : i \in 1..Len(d)}

\* price_dict[commodity_clean].append(price), the list created on first use
AppendPrice(d, k, p) ==
    IF DictHas(d, k)
    THEN [d EXCEPT ![DictIndex(d, k)].v = Append(@, p)]
    ELSE Append(d, [k |-> k, v |-> <<p>>])

RECURSIVE InsertSorted(_, _)
InsertSorted(s, x) ==
    IF s = <<>> THEN <<x>>
    ELSE IF RLt(x, Head(s)) THEN <<x>> \o s
    ELSE <<Head(s)>> \o InsertSorted(Tail(s), x)

RECURSIVE Sorted(_)
Sorted(s) ==
    IF s = <<>> THEN <<>>
    ELSE InsertSorted(Sorted(SubSeq(s, 1, Len(s) - 1)), s[Len(s)])

\* statistics.median: the middle element, or the mean of the two middle ones
Median(s) ==
    LET t == Sorted(s)
        n == Len(t)
    IN  IF n % 2 = 1 THEN t[(n + 1) \div 2]
        ELSE RDiv(RAdd(t[n \div 2], t[n \div 2 + 1]), RInt(2))

\* the outlier filter with the comparisons turned the wrong way round at the
\* bounds: a quote of exactly 100 or 30000 is dropped
InPriceRangeExclusive(p) ==
    ~RLe(p, RInt(MIN_PRICE)) /\ ~RGe(p, RInt(MAX_PRICE))

\* the outlier filter: TRUE when the quote is kept
InPriceRange(p) == ~RLt(p, RInt(MIN_PRICE)) /\ ~RGt(p, RInt(MAX_PRICE))

\* one iteration of the loop over records: the lists so far, or an exception
PriceLoopBody(d, record) ==
    IF record.kind # "dict" THEN Raise("AttributeError")   \* record.get
    ELSE
    LET commodity == record.commodity
        price == record.modal_price
        f == ParseFloat(price)
    IN  IF ~Truthy(commodity) \/ ~Truthy(price) THEN Return(d)
        ELSE IF f.raised THEN Return(d)
        ELSE IF ~InPriceRange(f.val) THEN Return(d)
        ELSE IF commodity.kind # "str" THEN Raise("AttributeError")  \* .lower
        ELSE Return(AppendPrice(d, Strip(Lower(commodity.s)), f.val))

RECURSIVE PriceLoop(_, _)
PriceLoop(d, items) ==
    IF items = <<>> THEN Return(d)
    ELSE LET r == PriceLoopBody(d, Head(items))
         IN  IF r.raised THEN r ELSE PriceLoop(r.val, Tail(items))

\* build_price_dictionary(records): records is what the fetch returned
build_price_dictionary(recs) ==
    IF recs.kind # "list" THEN Raise("TypeError")   \* for record in None
    ELSE LET r == PriceLoop(<<>>, recs.items)
         IN  IF r.raised THEN r
             ELSE Return([i \in 1..Len(r.val) |->
                            [k |-> r.val[i].k, v |-> Median(r.val[i].v)]])

CHILLI == <<"c","h","i","l","l","i">>
DRY == <<"d","r","y">>
GREEN == <<"g","r","e","e","n">>

\* the chilli rule: TRUE when the commodity is skipped for this crop name
SkipCommodity(name, commodity) ==
    Contains(CHILLI, name)
        /\ (Contains(DRY, commodity) /\ Contains(GREEN, name))

\* the position in pd of the first commodity the loop returns at,
\* 0 when the loop falls through; the crop name is already lower-cased
RECURSIVE FirstMatch(_, _, _)
FirstMatch(name, pd, i) ==
    IF i > Len(pd) THEN 0
    ELSE IF SkipCommodity(name, pd[i].k)
         THEN FirstMatch(name, pd, i + 1)
    ELSE IF Contains(name, pd[i].k) THEN i
    ELSE FirstMatch(name, pd, i + 1)

get_price_for_crop(name, pd) ==
    LET i == FirstMatch(Lower(name), pd, 1)
    IN  IF i = 0 THEN RInt(0) ELSE pd[i].v

----------------------------------------------------------------------------
(* Names and inputs the specifications draw from                           *)

\* every sequence over S of length at most n
RECURSIVE SeqsUpTo(_, _)
SeqsUpTo(S, n) ==
    IF n = 0 THEN {<<>>}
    ELSE LET shorter == SeqsUpTo(S, n - 1)
         IN  shorter \cup {Append(s, x) : s \in shorter, x \in S}

Quote(commodity, modal_price) ==
    [kind |-> "dict", commodity |-> commodity, modal_price |-> modal_price]

RICE == <<"R","i","c","e">>
RICE_UPPER_PADDED == <<" ","R","I","C","E"," ">>
RICE_LOWER == <<"r","i","c","e">>
RICE_TRAILING == <<"R","i","c","e"," ">>
DRY_CHILLI == <<"D","r","y"," ","C","h","i","l","l","i">>
GREEN_CHILLI == <<"G","r","e","e","n"," ","C","h","i","l","l","i">>
CHILLI_NAME == <<"C","h","i","l","l","i">>
RAGI == <<"R","a","g","i">>

NotCalled == [kind |-> "notcalled"]

----------------------------------------------------------------------------
(* Startup data: the crop catalog, the rainfall table, the predictor       *)

DEFAULT_DISTRICT_MEAN == 800

\* district_rainfall, a dict from district name to mean annual rainfall;
\* district names are only compared whole, so they are plain strings
DISTRICT_RAINFALL ==
    << [k |-> "Mandya", v |-> 806], [k |-> "Mysuru", v |-> 798],
       [k |-> "Hassan", v |-> 1031], [k |-> "Chikkamagaluru", v |-> 1925],
       [k |-> "Shivamogga", v |-> 1813], [k |-> "Kodagu", v |-> 2718],
       [k |-> "Udupi", v |-> 4119], [k |-> "Dakshina Kannada", v |-> 3975],
       [k |-> "Uttara Kannada", v |-> 2835], [k |-> "Belagavi", v |-> 808],
       [k |-> "Dharwad", v |-> 772], [k |-> "Haveri", v |-> 753],
       [k |-> "Tumakuru", v |-> 688], [k |-> "Raichur", v |-> 621],
       [k |-> "Bagalkote", v |-> 562], [k |-> "Vijayapura", v |-> 578],
       [k |-> "Kolar", v |-> 744], [k |-> "Bengaluru Rural", v |-> 885],
       [k |-> "Ballari", v |-> 636], [k |-> "Gulbarga", v |-> 777] >>

\* one row of crop_master with the columns predict reads
CropRow(id, name, kharif, rabi, black, red, alluvial, cost) ==
    [crop_id |-> id, crop_name |-> name,
     season_kharif |-> kharif, season_rabi |-> rabi,
     soil_black |-> black, soil_red |-> red, soil_alluvial |-> alluvial,
     total_cost_per_acre |-> RInt(cost)]

\* model.predict(input_data)[0] for the predictors the model is run with: the
\* joblib model is opaque, so each is a function of the feature row that
\* returns a yield or raises
ModelPredict(m, input_data) ==
    CASE m = "flat" -> Return(RInt(5))
      [] m = "by_features" ->
            Return(Rat(2 * input_data.crop_id + input_data.season_kharif
                         + 2 * input_data.irrigation_canal
                         + (IF RLt(input_data.rainfall_mm,
                                   RInt(input_data.district_mean_rainfall))
                            THEN 0 ELSE 1), 2))
      [] m = "raises_on_crop_2" ->
            IF input_data.crop_id = 2 THEN Raise("ValueError")
            ELSE Return(RInt(3))

----------------------------------------------------------------------------
(* The financial figures and the ranking of predict                        *)

HIGH_ROI == 200
MODERATE_ROI == 80
TOP_N == 3

\* x / y in Python
PyDiv(x, y) ==
    IF y = RInt(0) THEN Raise("ZeroDivisionError") ELSE Return(RDiv(x, y))

\* roi = (expected_profit / investment) * 100 if investment > 0 else 0
Roi(expected_profit, investment) ==
    IF RGt(investment, RInt(0))
    THEN LET q == PyDiv(expected_profit, investment)
         IN  IF q.raised THEN q ELSE Return(RMul(q.val, RInt(100)))
    ELSE Return(RInt(0))

\* the thresholds compared with >= instead of >
RiskLevelInclusive(roi) ==
    IF RGe(roi, RInt(HIGH_ROI)) THEN "High Reward (High Market Volatility)"
    ELSE IF RGe(roi, RInt(MODERATE_ROI)) THEN "Moderate"
    ELSE "Stable"

RiskLevel(roi) ==
    IF RGt(roi, RInt(HIGH_ROI)) THEN "High Reward (High Market Volatility)"
    ELSE IF RGt(roi, RInt(MODERATE_ROI)) THEN "Moderate"
    ELSE "Stable"

\* lines 206-227: the local variables of one candidate and the dict appended
\* to recommendations, or an exception
Evaluate(crop, predicted_yield, price, land_area) ==
    LET investment == RMul(crop.total_cost_per_acre, land_area)
        revenue == RMul(RMul(predicted_yield, land_area), price)
        expected_profit == RSub(revenue, investment)
        roi == Roi(expected_profit, investment)
    IN  IF roi.raised THEN roi
        ELSE Return(
          [investment |-> investment, revenue |-> revenue,
           expected_profit |-> expected_profit, roi |-> roi.val,
           risk |-> RiskLevel(roi.val),
           appended |->
             [crop |-> crop.crop_name,
              predicted_yield |-> Round2(predicted_yield),
              market_price_per_quintal |-> Round2(price),
              investment |-> Round2(investment),
              expected_profit |-> Round2(expected_profit),
              roi_percent |-> Round2(roi.val),
              risk_level |-> RiskLevel(roi.val)]])

\* an insertion that puts x in front of the elements equal to it, as an
\* unstable sort may
RECURSIVE InsertByProfitUnstable(_, _)
InsertByProfitUnstable(s, x) ==
    IF s = <<>> THEN <<x>>
    ELSE IF RLe(Head(s).expected_profit, x.expected_profit) THEN <<x>> \o s
    ELSE <<Head(s)>> \o InsertByProfitUnstable(Tail(s), x)

\* where x goes in a list sorted by expected_profit, largest first: behind
\* every element that is not smaller, which keeps equal elements in order
RECURSIVE InsertByProfit(_, _)
InsertByProfit(s, x) ==
    IF s = <<>> THEN <<x>>
    ELSE IF RLt(Head(s).expected_profit, x.expected_profit) THEN <<x>> \o s
    ELSE <<Head(s)>> \o InsertByProfit(Tail(s), x)

\* recommendations.sort(key=expected_profit, reverse=True): a stable sort
RECURSIVE SortByProfit(_)
SortByProfit(recs) ==
    IF recs = <<>> THEN <<>>
    ELSE InsertByProfit(SortByProfit(SubSeq(recs, 1, Len(recs) - 1)),
                        recs[Len(recs)])

Min(a, b) == IF a < b THEN a ELSE b

\* lines 229-233: sort, then recommendations[:3]
Rank(recs) == SubSeq(SortByProfit(recs), 1, Min(TOP_N, Len(recs)))

----------------------------------------------------------------------------
(* The price fetch                                                         *)

\* fetch_karnataka_prices(), given what requests.get and response.json do:
\*   "unreachable"  requests.get raises (no route, timeout)
\*   "not_json"     response.json() raises
\*   "json"         the body parses to the JSON value p.body: an object with
\*                  or without a "records" member, or another JSON value
\* Every exception is caught and gives []; data.get("records", []) gives the
\* member as it is, whatever its type.
fetch_karnataka_prices(p) ==
    CASE p.kind = "unreachable" -> [kind |-> "list", items |-> <<>>]
      [] p.kind = "not_json" -> [kind |-> "list", items |-> <<>>]
      [] p.kind = "json" ->
            IF p.body.kind # "object"
            THEN [kind |-> "list", items |-> <<>>]    \* .get raises, caught
            ELSE IF p.body.has_records THEN p.body.records
            ELSE [kind |-> "list", items |-> <<>>]

----------------------------------------------------------------------------
(* The /predict handler                                                    *)

Absent == [kind |-> "absent"]

KHARIF == <<"k","h","a","r","i","f">>
RABI == <<"r","a","b","i">>
BLACK == <<"b","l","a","c","k">>
RED == <<"r","e","d">>
ALLUVIAL == <<"a","l","l","u","v","i","a","l">>
RAINFED == <<"r","a","i","n","f","e","d">>
BOREWELL == <<"b","o","r","e","w","e","l","l">>
CANAL == <<"c","a","n","a","l">>

\* data[key]
Subscript(d, key) ==
    IF d[key].kind = "absent" THEN Raise("KeyError") ELSE Return(d[key])

\* float(data[key])
FloatField(d, key) ==
    IF d[key].kind = "absent" THEN Raise("KeyError") ELSE ParseFloat(d[key])

\* district_rainfall.get(district, 800)
DistrictMean(table, district) ==
    IF district.kind = "str" /\ DictHas(table, district.s)
    THEN DictGet(table, district.s)
    ELSE DEFAULT_DISTRICT_MEAN

\* lines 153-163: the fields of the request in the order they are read; the
\* first read that raises ends the handler
ReadRequest(d, table) ==
    LET district == Subscript(d, "district")
        season == Subscript(d, "season")
        soil == Subscript(d, "soil")
        rainfall == FloatField(d, "rainfall")
        irrigation == Subscript(d, "irrigation")
        land_area == FloatField(d, "land_area")
        available_profit == FloatField(d, "profit")
        reads == <<district, season, soil, rainfall, irrigation, land_area,
                   available_profit>>
    IN  IF \E i \in 1..7 : reads[i].raised
        THEN reads[CHOOSE i \in 1..7 :
                     reads[i].raised /\ \A j \in 1..(i - 1) : ~reads[j].raised]
        ELSE Return([district |-> district.val, season |-> season.val,
                     soil |-> soil.val, rainfall |-> rainfall.val,
                     irrigation |-> irrigation.val,
                     land_area |-> land_area.val,
                     available_profit |-> available_profit.val,
                     district_mean |-> DistrictMean(table, district.val)])

OneIf(b) == IF b THEN 1 ELSE 0

\* lines 173-176: TRUE when the season check goes on to the next crop
SeasonFilteredOut(season, crop) ==
    \/ Lower(season) = KHARIF /\ crop.season_kharif # 1
    \/ Lower(season) = RABI /\ crop.season_rabi # 1

\* lines 178-183: TRUE when the soil check goes on to the next crop
SoilFilteredOut(soil, crop) ==
    \/ Lower(soil) = BLACK /\ crop.soil_black # 1
    \/ Lower(soil) = RED /\ crop.soil_red # 1
    \/ Lower(soil) = ALLUVIAL /\ crop.soil_alluvial # 1

\* lines 185-197: the feature row given to the predictor
InputData(l, crop) ==
    [district_mean_rainfall |-> l.district_mean,
     rainfall_mm |-> l.rainfall,
     crop_id |-> crop.crop_id,
     soil_black |-> OneIf(Lower(l.soil.s) = BLACK),
     soil_red |-> OneIf(Lower(l.soil.s) = RED),
     soil_alluvial |-> OneIf(Lower(l.soil.s) = ALLUVIAL),
     irrigation_rainfed |-> OneIf(Lower(l.irrigation.s) = RAINFED),
     irrigation_borewell |-> OneIf(Lower(l.irrigation.s) = BOREWELL),
     irrigation_canal |-> OneIf(Lower(l.irrigation.s) = CANAL),
     season_kharif |-> OneIf(Lower(l.season.s) = KHARIF),
     season_rabi |-> OneIf(Lower(l.season.s) = RABI)]

\* the outcome of one iteration of the loop over crop_master: the
\* recommendations after it, or the exception that leaves the loop, and how
\* many times the predictor was called
Continue(recs, called) == [raised |-> FALSE, recs |-> recs, called |-> called]
Leave(e, called) == [raised |-> TRUE, exc |-> e, called |-> called]

\* lines 170-227 for one crop.  A field that is not a string raises
\* AttributeError where .lower() is first called on it.
CropLoopBody(l, crop, pd, m, recs) ==
    IF l.season.kind # "str" THEN Leave("AttributeError", 0)
    ELSE IF SeasonFilteredOut(l.season.s, crop) THEN Continue(recs, 0)
    ELSE IF l.soil.kind # "str" THEN Leave("AttributeError", 0)
    ELSE IF SoilFilteredOut(l.soil.s, crop) THEN Continue(recs, 0)
    ELSE IF l.irrigation.kind # "str" THEN Leave("AttributeError", 0)
    ELSE
    LET predicted == ModelPredict(m, InputData(l, crop))
        price == get_price_for_crop(crop.crop_name, pd)
    IN  IF predicted.raised THEN Leave(predicted.exc, 1)
        ELSE IF price = RInt(0) THEN Continue(recs, 1)
        ELSE LET e == Evaluate(crop, predicted.val, price, l.land_area)
             IN  IF e.raised THEN Leave(e.exc, 1)
                 ELSE Continue(Append(recs, e.val.appended), 1)

\* an exception that leaves the view function: Flask answers 500
ServerError(e) == [status |-> 500, exc |-> e]
\* jsonify({"recommendations": ...})
Ok(recs) == [status |-> 200, recommendations |-> recs]

NoValue == [kind |-> "novalue"]

\* a request arrives with body d
Receive(r, d) ==
    /\ pc[r] = "idle"
    /\ data' = [data EXCEPT ![r] = d]
    /\ pc' = [pc EXCEPT ![r] = "read"]
    /\ UNCHANGED <<locals, payload, mandi_records, price_dict,
                   recommendations, crop_index, response, fetches,
                   predict_calls>>
    /\ UNCHANGED <<price_vars, pure_vars, global_vars>>

\* lines 153-163
ReadFields(r) ==
    /\ pc[r] = "read"
    /\ LET l == ReadRequest(data[r], district_rainfall)
       IN  IF l.raised
           THEN /\ response' = [response EXCEPT ![r] = ServerError(l.exc)]
                /\ pc' = [pc EXCEPT ![r] = "done"]
                /\ UNCHANGED locals
           ELSE /\ locals' = [locals EXCEPT ![r] = l.val]
                /\ pc' = [pc EXCEPT ![r] = "fetch"]
                /\ UNCHANGED response
    /\ UNCHANGED <<data, payload, mandi_records, price_dict, recommendations,
                   crop_index, fetches, predict_calls>>
    /\ UNCHANGED <<price_vars, pure_vars, global_vars>>

\* line 165: mandi_records = fetch_karnataka_prices(); the source answers p
FetchPrices(r, p) ==
    /\ pc[r] = "fetch"
    /\ payload' = [payload EXCEPT ![r] = p]
    /\ mandi_records' = [mandi_records EXCEPT ![r] = fetch_karnataka_prices(p)]
    /\ fetches' = [fetches EXCEPT ![r] = @ + 1]
    /\ pc' = [pc EXCEPT ![r] = "build"]
    /\ UNCHANGED <<data, locals, price_dict, recommendations, crop_index,
                   response, predict_calls>>
    /\ UNCHANGED <<price_vars, pure_vars, global_vars>>

\* the price index kept in one module-level variable that every request
\* overwrites
StorePriceDictShared(pds, r, d) == [q \in DOMAIN pds |-> d]

\* where the price index of request r is kept: a local of its own call
StorePriceDict(pds, r, d) == [pds EXCEPT ![r] = d]

\* lines 166-168
BuildIndex(r) ==
    /\ pc[r] = "build"
    /\ LET d == build_price_dictionary(mandi_records[r])
       IN  IF d.raised
           THEN /\ response' = [response EXCEPT ![r] = ServerError(d.exc)]
                /\ pc' = [pc EXCEPT ![r] = "done"]
                /\ UNCHANGED <<price_dict, recommendations, crop_index>>
           ELSE /\ price_dict' = StorePriceDict(price_dict, r, d.val)
                /\ recommendations' = [recommendations EXCEPT ![r] = <<>>]
                /\ crop_index' = [crop_index EXCEPT ![r] = 1]
                /\ pc' = [pc EXCEPT ![r] = "loop"]
                /\ UNCHANGED response
    /\ UNCHANGED <<data, locals, payload, mandi_records, fetches,
                   predict_calls>>
    /\ UNCHANGED <<price_vars, pure_vars, global_vars>>

\* lines 170-227: one iteration of the loop over crop_master
CropStep(r) ==
    /\ pc[r] = "loop"
    /\ crop_index[r] <= Len(crop_master)
    /\ LET o == CropLoopBody(locals[r], crop_master[crop_index[r]],
                             price_dict[r], model, recommendations[r])
       IN  /\ IF o.raised
              THEN /\ response' = [response EXCEPT ![r] = ServerError(o.exc)]
                   /\ pc' = [pc EXCEPT ![r] = "done"]
                   /\ UNCHANGED <<recommendations, crop_index>>
              ELSE /\ recommendations' =
                         [recommendations EXCEPT ![r] = o.recs]
                   /\ crop_index' = [crop_index EXCEPT ![r] = @ + 1]
                   /\ UNCHANGED <<response, pc>>
           /\ predict_calls' = [predict_calls EXCEPT ![r] = @ + o.called]
    /\ UNCHANGED <<data, locals, payload, mandi_records, price_dict, fetches>>
    /\ UNCHANGED <<price_vars, pure_vars, global_vars>>

\* lines 229-233, once the loop is over
Respond(r) ==
    /\ pc[r] = "loop"
    /\ crop_index[r] > Len(crop_master)
    /\ response' = [response EXCEPT ![r] = Ok(Rank(recommendations[r]))]
    /\ pc' = [pc EXCEPT ![r] = "done"]
    /\ UNCHANGED <<data, locals, payload, mandi_records, price_dict,
                   recommendations, crop_index, fetches, predict_calls>>
    /\ UNCHANGED <<price_vars, pure_vars, global_vars>>

----------------------------------------------------------------------------
(* One request at a time, on every catalog and predictor: Spec             *)

MaxCatalog == 2
MaxRequests == 2

Requests == 1..MaxRequests

WHEAT == <<"W","h","e","a","t">>

\* rows a catalog is made of: crops of one season and of both, of some soils
\* and not others, with and without a price in the market
CropPool ==
    { CropRow(1, RAGI, 1, 1, 0, 1, 0, 10000),
      CropRow(2, RICE, 1, 0, 1, 1, 1, 12000),
      CropRow(3, CHILLI_NAME, 0, 1, 1, 1, 0, 20000),
      CropRow(4, WHEAT, 0, 1, 1, 0, 1, 8000) }

Predictors == {"flat", "by_features", "raises_on_crop_2"}

BaseRequest ==
    [district |-> Str("Mandya"),
     season |-> Str(<<"K","h","a","r","i","f">>),
     soil |-> Str(<<"R","e","d">>),
     rainfall |-> Num(RInt(800)),
     irrigation |-> Str(<<"B","o","r","e","w","e","l","l">>),
     land_area |-> Num(RInt(2)),
     profit |-> Num(RInt(50000))]

Fields == {"district", "season", "soil", "rainfall", "irrigation",
           "land_area", "profit"}
NumericFields == {"rainfall", "land_area", "profit"}

\* requests with every field present and every number parseable: the
\* seasons and soils the filter knows, in several spellings, and ones it
\* does not know
WellFormedRequests ==
    { [BaseRequest EXCEPT !.season = Str(se), !.soil = Str(so),
                          !.land_area = la] :
        se \in {<<"K","h","a","r","i","f">>, <<"r","a","b","i">>,
                <<"Z","a","i","d">>},
        so \in {<<"R","e","d">>, <<"B","L","A","C","K">>,
                <<"a","l","l","u","v","i","a","l">>, <<"C","l","a","y">>},
        la \in {Num(RInt(2)), Str(<<"1">>)} }

\* requests with one field absent, or one number that does not parse
MalformedRequests ==
    {[BaseRequest EXCEPT ![f] = Absent] : f \in Fields}
    \cup {[BaseRequest EXCEPT ![f] = Str(<<"n","/","a">>)] : f \in NumericFields}
    \cup {[BaseRequest EXCEPT ![f] = None] : f \in NumericFields}

\* requests whose season is present and is not a string
MistypedRequests == {[BaseRequest EXCEPT !.season = Num(RInt(1))]}

RequestPool == WellFormedRequests \cup MalformedRequests \cup MistypedRequests

List(items) == [kind |-> "list", items |-> items]
JsonObject(recs) == [kind |-> "object", has_records |-> TRUE, records |-> recs]
Answer(body) == [kind |-> "json", body |-> body]

MarketRecords ==
    << Quote(Str(<<"R","a","g","i"," ","(","F","M",")">>),
             Str(<<"2","0","0","0">>)),
       Quote(Str(RICE), Str(<<"2","1","0","0">>)),
       Quote(Str(RICE_TRAILING), Str(<<"2","4","0","0">>)),
       Quote(Str(DRY_CHILLI), Str(<<"1","2","0","0","0">>)) >>

\* what the price source may answer: no answer, a body that is not JSON, JSON
\* of the wrong shape, an error object without records, and records
PayloadPool ==
    { [kind |-> "unreachable"],
      [kind |-> "not_json"],
      Answer(List(<<>>)),
      Answer([kind |-> "object", has_records |-> FALSE]),
      Answer(JsonObject(None)),
      Answer(JsonObject(List(<<>>))),
      Answer(JsonObject(List(MarketRecords))),
      Answer(JsonObject(List(<<Str(RICE)>>))),
      Answer(JsonObject(List(<<Quote(Num(RInt(7)),
                                     Str(<<"2","0","0","0">>))>>))) }

RequestsIdle ==
    /\ pc = [r \in Requests |-> "idle"]
    /\ data = [r \in Requests |-> NoValue]
    /\ locals = [r \in Requests |-> NoValue]
    /\ payload = [r \in Requests |-> NoValue]
    /\ mandi_records = [r \in Requests |-> NoValue]
    /\ price_dict = [r \in Requests |-> NoValue]
    /\ recommendations = [r \in Requests |-> NoValue]
    /\ crop_index = [r \in Requests |-> 0]
    /\ response = [r \in Requests |-> NoValue]
    /\ fetches = [r \in Requests |-> 0]
    /\ predict_calls = [r \in Requests |-> 0]

PriceIdle ==
    /\ records = NotCalled
    /\ built = NotCalled
    /\ crop_query = <<>>
    /\ quoted = NotCalled
    /\ price_pc = "idle"

RankIdle == candidates = <<>> /\ ranked = <<>>
FiguresIdle == figures_of = NotCalled /\ figures = NotCalled
CallIdle == call_pc = "idle"
GlobalsIdle ==
    /\ crop_master = <<>>
    /\ district_rainfall = DISTRICT_RAINFALL
    /\ model = "flat"

Init ==
    /\ crop_master \in SeqsUpTo(CropPool, MaxCatalog)
    /\ district_rainfall = DISTRICT_RAINFALL
    /\ model \in Predictors
    /\ RequestsIdle
    /\ PriceIdle
    /\ RankIdle
    /\ FiguresIdle
    /\ CallIdle

Next ==
    \/ \E d \in RequestPool : Receive(1, d)
    \/ ReadFields(1)
    \/ \E p \in PayloadPool : FetchPrices(1, p)
    \/ BuildIndex(1)
    \/ CropStep(1)
    \/ Respond(1)

Spec == Init /\ [][Next]_vars

----------------------------------------------------------------------------
(* The price functions on their own: SpecPrice                             *)

MaxRecords == 3

\* the raw records the price functions are tried on: the boundary prices
\* 99, 100, 30000, 30001, raw names that normalise to one key, and records
\* with an absent, empty or unparseable field
QuotePool ==
    { Quote(Str(RICE), Str(<<"9","9">>)),
      Quote(Str(RICE_UPPER_PADDED), Str(<<"1","0","0">>)),
      Quote(Str(RICE), Str(<<"1","0","1">>)),
      Quote(Str(RICE_LOWER), Str(<<"3","0","0","0","0">>)),
      Quote(Str(RICE_TRAILING), Str(<<"3","0","0","0","1">>)),
      Quote(Str(DRY_CHILLI), Str(<<"1","0","0">>)),
      Quote(Str(DRY_CHILLI), Str(<<"3","0","0","0","1">>)),
      Quote(None, Str(<<"1","0","0">>)),
      Quote(Str(<<>>), Str(<<"1","0","0">>)),
      Quote(Str(RICE), None),
      Quote(Str(RICE), Str(<<"N","R">>)),
      Quote(Str(RICE), Num(RInt(0))) }

CropQueries == {CHILLI_NAME, GREEN_CHILLI, DRY_CHILLI, RICE, RAGI}

InitPrice ==
    /\ records \in {[kind |-> "list", items |-> q] :
                        q \in SeqsUpTo(QuotePool, MaxRecords)}
    /\ built = NotCalled
    /\ crop_query = <<>>
    /\ quoted = NotCalled
    /\ price_pc = "start"
    /\ GlobalsIdle
    /\ RequestsIdle
    /\ RankIdle
    /\ FiguresIdle
    /\ CallIdle

\* price_dict = build_price_dictionary(records)
BuildPrices ==
    /\ price_pc = "start"
    /\ built' = build_price_dictionary(records)
    /\ price_pc' = "built"
    /\ UNCHANGED <<records, crop_query, quoted>>
    /\ UNCHANGED <<pure_vars, global_vars, request_vars>>

\* price = get_price_for_crop(crop_name, price_dict)
ResolvePrice ==
    /\ price_pc = "built"
    /\ ~built.raised
    /\ \E c \in CropQueries :
          /\ crop_query' = c
          /\ quoted' = get_price_for_crop(c, built.val)
    /\ price_pc' = "resolved"
    /\ UNCHANGED <<records, built>>
    /\ UNCHANGED <<pure_vars, global_vars, request_vars>>

NextPrice == BuildPrices \/ ResolvePrice

SpecPrice == InitPrice /\ [][NextPrice]_vars

----------------------------------------------------------------------------
(* The ranking on its own: SpecRank                                        *)

MaxCandidates == 4

MAIZE == <<"M","a","i","z","e">>
COTTON == <<"C","o","t","t","o","n">>

\* an entry of recommendations, with the fields the ranking reads
Candidate(name, profit) == [crop |-> name, expected_profit |-> profit]

\* candidates with different and with equal expected profits
CandidatePool ==
    { Candidate(RAGI, RInt(50)), Candidate(RICE, RInt(200)),
      Candidate(CHILLI_NAME, RInt(75)), Candidate(WHEAT, RInt(10)),
      Candidate(MAIZE, RInt(50)), Candidate(COTTON, RInt(200)) }

InitRank ==
    /\ candidates \in SeqsUpTo(CandidatePool, MaxCandidates)
    /\ ranked = <<>>
    /\ call_pc = "start"
    /\ PriceIdle
    /\ FiguresIdle
    /\ GlobalsIdle
    /\ RequestsIdle

\* lines 229-233
RankCandidates ==
    /\ call_pc = "start"
    /\ ranked' = Rank(candidates)
    /\ call_pc' = "returned"
    /\ UNCHANGED <<candidates, figures_of, figures>>
    /\ UNCHANGED <<price_vars, global_vars, request_vars>>

NextRank == RankCandidates

SpecRank == InitRank /\ [][NextRank]_vars

----------------------------------------------------------------------------
(* The figures of one candidate on their own: SpecFigures                  *)

\* costs, areas, yields and prices that put the ROI on, just above and well
\* away from the thresholds 80 and 200, and the investment at and below 0
FigureInputs ==
    [cost : {0, 100, 10000},
     land_area : {RInt(-1), RInt(0), RInt(1), RInt(2)},
     predicted_yield : {RInt(1), RInt(3), RInt(5), Rat(5, 2)},
     price : {RInt(100), RInt(180), RInt(181), RInt(300), RInt(301),
              RInt(2000)}]

InitFigures ==
    /\ figures_of \in FigureInputs
    /\ figures = NotCalled
    /\ call_pc = "start"
    /\ PriceIdle
    /\ RankIdle
    /\ GlobalsIdle
    /\ RequestsIdle

\* lines 206-227
EvaluateCandidate ==
    /\ call_pc = "start"
    /\ call_pc' = "returned"
    /\ figures' = Evaluate(CropRow(1, RAGI, 1, 1, 0, 1, 0, figures_of.cost),
                           figures_of.predicted_yield, figures_of.price,
                           figures_of.land_area)
    /\ UNCHANGED <<candidates, ranked, figures_of>>
    /\ UNCHANGED <<price_vars, global_vars, request_vars>>

NextFigures == EvaluateCandidate

SpecFigures == InitFigures /\ [][NextFigures]_vars

----------------------------------------------------------------------------
(* Concurrent requests: SpecConcurrent                                     *)

\* the catalog and the predictor the server was started with
StartupCatalog ==
    << CropRow(1, RAGI, 1, 1, 0, 1, 0, 10000),
       CropRow(2, RICE, 1, 0, 1, 1, 1, 12000),
       CropRow(4, WHEAT, 0, 1, 1, 0, 1, 8000) >>
StartupModel == "by_features"

ConcurrentRequests ==
    { BaseRequest,
      [BaseRequest EXCEPT !.season = Str(<<"r","a","b","i">>),
                          !.soil = Str(<<"B","L","A","C","K">>)] }

\* two markets with different prices, so that a request answered from
\* another request's price index would show
OtherMarketRecords ==
    << Quote(Str(<<"R","a","g","i">>), Str(<<"3","5","0","0">>)),
       Quote(Str(WHEAT), Str(<<"2","5","0","0">>)) >>

ConcurrentPayloads ==
    { Answer(JsonObject(List(MarketRecords))),
      Answer(JsonObject(List(OtherMarketRecords))) }

InitConcurrent ==
    /\ crop_master = StartupCatalog
    /\ district_rainfall = DISTRICT_RAINFALL
    /\ model = StartupModel
    /\ RequestsIdle
    /\ PriceIdle
    /\ RankIdle
    /\ FiguresIdle
    /\ CallIdle

NextConcurrent ==
    \E r \in Requests :
        \/ \E d \in ConcurrentRequests : Receive(r, d)
        \/ ReadFields(r)
        \/ \E p \in ConcurrentPayloads : FetchPrices(r, p)
        \/ BuildIndex(r)
        \/ CropStep(r)
        \/ Respond(r)

SpecConcurrent == InitConcurrent /\ [][NextConcurrent]_vars

\* predict run from start to end on its own
RECURSIVE LoopAlone(_, _, _, _, _, _)
LoopAlone(l, catalog, pd, m, recs, i) ==
    IF i > Len(catalog) THEN Ok(Rank(recs))
    ELSE LET o == CropLoopBody(l, catalog[i], pd, m, recs)
         IN  IF o.raised THEN ServerError(o.exc)
             ELSE LoopAlone(l, catalog, pd, m, o.recs, i + 1)

PredictAlone(d, p, catalog, table, m) ==
    LET l == ReadRequest(d, table)
        pd == build_price_dictionary(fetch_karnataka_prices(p))
    IN  IF l.raised THEN ServerError(l.exc)
        ELSE IF pd.raised THEN ServerError(pd.exc)
        ELSE LoopAlone(l.val, catalog, pd.val, m, <<>>, 1)

----------------------------------------------------------------------------
(* Claims about the price functions                                        *)

\* the records of items that count for a key: a named commodity, a price
\* that parses, and 100 <= price <= 30000
Counts(record) ==
    /\ record.commodity.kind = "str" /\ record.commodity.s # <<>>
    /\ record.modal_price.kind \in {"str", "num"}
    /\ ~ParseFloat(record.modal_price).raised
    /\ RLe(RInt(100), ParseFloat(record.modal_price).val)
    /\ RLe(ParseFloat(record.modal_price).val, RInt(30000))

KeyOf(record) == Strip(Lower(record.commodity.s))

\* the positions in items of the records that count for key k
QuotesFor(items, k) ==
    {i \in 1..Len(items) : Counts(items[i]) /\ KeyOf(items[i]) = k}

PriceAt(items, i) == ParseFloat(items[i].modal_price).val

\* the j-th smallest price among the positions I (an order statistic)
Smallest(items, I, j) ==
    CHOOSE x \in {PriceAt(items, i) : i \in I} :
        /\ Cardinality({i \in I : RLt(PriceAt(items, i), x)}) < j
        /\ Cardinality({i \in I : RLe(PriceAt(items, i), x)}) >= j

\* twice the median of the prices at I is the sum of the two middle order
\* statistics (the same one twice when there is an odd number of prices)
IsMedianOf(m, items, I) ==
    LET n == Cardinality(I)
    IN  RMul(RInt(2), m) =
            RAdd(Smallest(items, I, (n + 1) \div 2),
                 Smallest(items, I, n \div 2 + 1))

C3_GreenChilliNeverDry ==
    (/\ price_pc = "resolved"
     /\ Contains(CHILLI, Lower(crop_query))
     /\ ~Contains(DRY, Lower(crop_query)))
    => LET i == FirstMatch(Lower(crop_query), built.val, 1)
       IN  i = 0 \/ ~Contains(DRY, built.val[i].k)

----------------------------------------------------------------------------
(* Claims about one request                                                *)

KnownSeasons == {KHARIF, RABI}
KnownSoils == {BLACK, RED, ALLUVIAL}

\* the crop's compatibility flag for a season or soil name; a name that has
\* no column has no flag set
SeasonFlag(crop, season) ==
    CASE Lower(season) = KHARIF -> crop.season_kharif
      [] Lower(season) = RABI -> crop.season_rabi
      [] OTHER -> 0

SoilFlag(crop, soil) ==
    CASE Lower(soil) = BLACK -> crop.soil_black
      [] Lower(soil) = RED -> crop.soil_red
      [] Lower(soil) = ALLUVIAL -> crop.soil_alluvial
      [] OTHER -> 0

Answered(r) == pc[r] = "done" /\ response[r].status = 200

\* the predictor answers for every crop
NeverRaises(m) == m \in {"flat", "by_features"}

\* C1: every recommendation in the response of predict belongs to a crop
\* whose flag for the requested season is 1 and whose flag for the requested
\* soil is 1, and carries the strictly positive price resolved for that crop;
\* a crop whose price is unresolved never appears.
C1_RecommendedCropsAreCompatibleAndPriced ==
    Answered(1) =>
        \A i \in 1..Len(response[1].recommendations) :
            LET rec == response[1].recommendations[i]
            IN  \E j \in 1..Len(crop_master) :
                    LET crop == crop_master[j]
                        price == get_price_for_crop(crop.crop_name,
                                                    price_dict[1])
                    IN  /\ crop.crop_name = rec.crop
                        /\ SeasonFlag(crop, locals[1].season.s) = 1
                        /\ SoilFlag(crop, locals[1].soil.s) = 1
                        /\ price # RInt(0)
                        /\ RGt(rec.market_price_per_quintal, RInt(0))
                        /\ rec.market_price_per_quintal = Round2(price)

\* C2: when the requested season is not kharif or rabi, or the requested soil
\* is not black, red or alluvial (whatever the case of the letters), every
\* crop is excluded: the predictor is not called and the recommendation list
\* is empty (stated for a predictor that does not fail and a price index
\* that was built).
C2_FilterFailsClosed ==
    (/\ pc[1] = "done"
     /\ crop_index[1] >= 1
     /\ locals[1].season.kind = "str"
     /\ \/ Lower(locals[1].season.s) \notin KnownSeasons
        \/ Lower(locals[1].soil.s) \notin KnownSoils
     /\ NeverRaises(model))
    => /\ predict_calls[1] = 0
       /\ response[1] = Ok(<<>>)

\* C7: a failure on one crop never aborts the batch: once the loop over the
\* catalog has started (with a season, soil and irrigation that are strings),
\* it visits every crop and the request is answered with recommendations,
\* whether the predictor fails on a crop or not.
C7_OneCropNeverAbortsTheBatch ==
    (/\ pc[1] = "done"
     /\ crop_index[1] >= 1
     /\ locals[1].season.kind = "str")
    => /\ response[1].status = 200
       /\ crop_index[1] = Len(crop_master) + 1

\* the price source gave no usable records: it was unreachable, or its answer
\* was not JSON, not an object, without records, with records that are not a
\* list of quotes, or with an empty list
Degraded(p) ==
    \/ p.kind \in {"unreachable", "not_json"}
    \/ p.kind = "json" /\ p.body.kind # "object"
    \/ p.kind = "json" /\ p.body.kind = "object" /\ ~p.body.has_records
    \/ /\ p.kind = "json" /\ p.body.kind = "object" /\ p.body.has_records
       /\ \/ p.body.records.kind # "list"
          \/ \E i \in 1..Len(p.body.records.items) :
                \/ p.body.records.items[i].kind # "dict"
                \/ p.body.records.items[i].commodity.kind \notin {"str", "none"}
          \/ p.body.records.items = <<>>

\* C8: when the price source is unreachable or answers with a malformed
\* payload or with no records, the request does not fail: (the predictor not
\* failing either) it is answered with an empty recommendation list.
C8_PriceSourceFailureGivesEmptyList ==
    (/\ pc[1] = "done"
     /\ fetches[1] = 1
     /\ Degraded(payload[1])
     /\ NeverRaises(model)
     /\ locals[1].season.kind = "str")
    => response[1] = Ok(<<>>)

\* a field is absent, or a numeric field does not parse as a number
Malformed(d) ==
    \/ \E f \in Fields : d[f].kind = "absent"
    \/ \E f \in NumericFields : d[f].kind # "absent" /\ ParseFloat(d[f]).raised

\* C9: a request with an absent field or a number that does not parse ends
\* in a client error (a 4xx status) without a price fetch, a predictor call or
\* a recommendation list.
C9_MalformedRequestIsClientError ==
    (pc[1] = "done" /\ Malformed(data[1]))
    => /\ response[1].status \in 400..499
       /\ fetches[1] = 0
       /\ predict_calls[1] = 0
       /\ crop_index[1] = 0

----------------------------------------------------------------------------
(* Claims about the ranking, the figures and concurrent requests           *)

Profit(rec) == rec.expected_profit

\* C5: of n candidates the response carries min(3, n), ordered by expected
\* profit, largest first, each with an expected profit no smaller than that
\* of every candidate left out; candidates with equal expected profit keep
\* the order they were evaluated in; of no candidates it carries none.
C5_TopThreeByProfitStable ==
    call_pc = "returned" =>
        LET n == Len(candidates)
            k == Len(ranked)
        IN  /\ k = (IF n < 3 THEN n ELSE 3)
            /\ \E f \in [1..k -> 1..n] :
                  /\ \A i \in 1..k : ranked[i] = candidates[f[i]]
                  /\ \A i, j \in 1..k :
                        i < j =>
                            /\ f[i] # f[j]
                            /\ RGe(Profit(ranked[i]), Profit(ranked[j]))
                            /\ Profit(ranked[i]) = Profit(ranked[j])
                                  => f[i] < f[j]
                  /\ \A o \in 1..n :
                        (\A i \in 1..k : f[i] # o) =>
                            \A i \in 1..k :
                                /\ RGe(Profit(ranked[i]), Profit(candidates[o]))
                                /\ Profit(ranked[i]) = Profit(candidates[o])
                                      => f[i] < o

\* four candidates with profits 50, 200, 50, 200: the response carries the
\* two of 200 in their order, then the first of 50, and leaves the second out
C5_Witness ==
    /\ call_pc = "returned"
    /\ candidates = << Candidate(RAGI, RInt(50)), Candidate(RICE, RInt(200)),
                       Candidate(MAIZE, RInt(50)), Candidate(COTTON, RInt(200)) >>
    /\ ranked = << Candidate(RICE, RInt(200)), Candidate(COTTON, RInt(200)),
                   Candidate(RAGI, RInt(50)) >>

\* C6: the ROI is (expected_profit / investment) * 100 when investment > 0
\* and 0 when investment <= 0, and nothing is raised; the risk level is
\* "High Reward (High Market Volatility)" exactly when roi > 200, "Moderate"
\* exactly when 80 < roi <= 200 and "Stable" exactly when roi <= 80.
C6_RoiAndRiskLevel ==
    call_pc = "returned" =>
        /\ ~figures.raised
        /\ LET v == figures.val
               investment == RMul(RInt(figures_of.cost), figures_of.land_area)
               expected_profit ==
                   RSub(RMul(RMul(figures_of.predicted_yield,
                                  figures_of.land_area), figures_of.price),
                        investment)
           IN  /\ v.investment = investment
               /\ v.expected_profit = expected_profit
               /\ RGt(investment, RInt(0)) =>
                     RMul(v.roi, investment) = RMul(expected_profit, RInt(100))
               /\ RLe(investment, RInt(0)) => v.roi = RInt(0)
               /\ v.risk = "High Reward (High Market Volatility)"
                     <=> RGt(v.roi, RInt(200))
               /\ v.risk = "Moderate"
                     <=> (RGt(v.roi, RInt(80)) /\ RLe(v.roi, RInt(200)))
               /\ v.risk = "Stable" <=> RLe(v.roi, RInt(80))
               /\ v.appended.risk_level = v.risk
               /\ v.appended.roi_percent = Round2(v.roi)

\* cost 100 on 1 acre, yield 3 at price 100: profit 200 on 100 invested, an
\* ROI of exactly 200, which is Moderate
C6_Witness ==
    /\ call_pc = "returned"
    /\ figures_of.cost = 100 /\ figures_of.land_area = RInt(1)
    /\ ~figures.raised
    /\ figures.val.roi = RInt(200)
    /\ figures.val.risk = "Moderate"

\* C10: under any interleaving of requests, no request writes the catalog,
\* the rainfall table or the predictor; each request makes one price fetch
\* before its crop loop, and its response is the one it would get running
\* alone on the same body and the same fetched records.
C10_RequestsAreIsolated ==
    /\ crop_master = StartupCatalog
    /\ district_rainfall = DISTRICT_RAINFALL
    /\ model = StartupModel
    /\ \A r \in Requests :
          /\ pc[r] \in {"idle", "read", "fetch"} => fetches[r] = 0
          /\ pc[r] \in {"build", "loop"} => fetches[r] = 1
          /\ pc[r] = "done" =>
                /\ fetches[r] = 1
                /\ response[r] = PredictAlone(data[r], payload[r],
                                              StartupCatalog,
                                              DISTRICT_RAINFALL, StartupModel)

\* two requests of different seasons answered from different markets, each
\* with the recommendations of its own market
C10_Witness ==
    /\ pc[1] = "done" /\ pc[2] = "done"
    /\ data[1] # data[2]
    /\ payload[1] # payload[2]
    /\ response[1].status = 200 /\ response[2].status = 200
    /\ response[1].recommendations # <<>>
    /\ response[2].recommendations # <<>>
    /\ response[1] # response[2]

====
